---- MODULE Spec2Model ----
(***************************************************************************)
(* Model of the ageing simulation's network engine: the prefix algebra     *)
(* (src/network/prefix.rs), nodes (src/network/node.rs), the churn events   *)
(* (src/network/churn.rs) and the Network container with its event         *)
(* dispatcher, merge coordination and random operators                     *)
(* (src/network/network.rs).  The Section collaborator is not part of the  *)
(* sources; it is modelled from its contract.                              *)
(***************************************************************************)
EXTENDS Integers, Sequences, FiniteSets, TLC

(***************************************************************************)
(* Bounds of the model.                                                    *)
(***************************************************************************)
\* width of a name in bits (u64 in prefix.rs, scaled down)
NameBits == 3
\* number of calls of add_random_node / drop_random_node / rejoin_random_node
MaxOps == 1
\* number of unsolicited SectionEvents (RequestSplit, RequestMerge,
\* NeedRelocate) the sections may return in one run
MaxSectionEvents == 4
\* ages range over init_age .. init_age + MaxAgeing
MaxAgeing == 1

\* the same two budgets for the runs that start from a grown network
GrownOps == 1

GrownRequests == 1

(***************************************************************************)
(* Arithmetic on NameBits-wide words.                                      *)
(***************************************************************************)
RECURSIVE Pow2(_)
Pow2(n) == IF n <= 0 THEN 1 ELSE 2 * Pow2(n - 1)

Word == Pow2(NameBits)

Names == 0 .. (Word - 1)

\* bit of w at distance i from the most significant bit
BitAt(w, i) == (w \div (2 ^ (NameBits - 1 - i))) % 2

\* u64::leading_zeros on a NameBits-wide word
RECURSIVE LeadingZerosFrom(_, _)
LeadingZerosFrom(w, i) ==
    IF i >= NameBits THEN NameBits
    ELSE IF BitAt(w, i) = 1 THEN i
    ELSE LeadingZerosFrom(w, i + 1)

ZerosTable == [w \in Names |-> LeadingZerosFrom(w, 0)]

leading_zeros(w) == ZerosTable[w]

RECURSIVE XorFrom(_, _, _)
XorFrom(a, b, i) ==
    IF i >= NameBits THEN 0
    ELSE (IF BitAt(a, i) # BitAt(b, i) THEN Pow2(NameBits - 1 - i) ELSE 0)
         + XorFrom(a, b, i + 1)

XorTable == [a \in Names |-> [b \in Names |-> XorFrom(a, b, 0)]]

BitXor(a, b) == XorTable[a][b]

RECURSIVE AndFrom(_, _, _)
AndFrom(a, b, i) ==
    IF i >= NameBits THEN 0
    ELSE (IF BitAt(a, i) = 1 /\ BitAt(b, i) = 1 THEN Pow2(NameBits - 1 - i) ELSE 0)
         + AndFrom(a, b, i + 1)

AndTable == [a \in Names |-> [b \in Names |-> AndFrom(a, b, 0)]]

BitAnd(a, b) == AndTable[a][b]

BitOr(a, b) == a + b - BitAnd(a, b)

\* !w on a NameBits-wide word
BitNot(w) == (Word - 1) - w

\* w << k, truncated to the word
ShiftLeft(w, k) == (w * (2 ^ k)) % Word

(***************************************************************************)
(* Prefix (prefix.rs).                                                     *)
(***************************************************************************)
\* the sentinel length from_name gives (<u8>::max_value())
NameLen == 255

Prefix(b, l) == [bits |-> b, len |-> l]

from_name(name) == Prefix(name, NameLen)

empty == Prefix(0, 0)

\* an extend that counts past the last bit
extend_past(p, bit) ==
    Prefix(BitOr(p.bits, IF p.len > NameBits - 1 THEN 0
                         ELSE ShiftLeft(bit % 2, NameBits - 1 - p.len)), p.len + 1)

extend(p, bit) ==
    IF p.len > NameBits - 1 THEN p
    ELSE Prefix(BitOr(p.bits, ShiftLeft(bit % 2, NameBits - 1 - p.len)), p.len + 1)

len_mask(p) ==
    IF p.len = 0 THEN 0 ELSE ShiftLeft(Word - 1, NameBits - p.len)

\* a shorten that keeps the bits as they are
shorten_len(p) == IF p.len < 1 THEN p ELSE Prefix(p.bits, p.len - 1)

shorten(p) ==
    IF p.len < 1 THEN p
    ELSE Prefix(BitAnd(p.bits, ShiftLeft(len_mask(p), 1)), p.len - 1)

with_flipped_bit(p, bit) ==
    Prefix(BitXor(p.bits, ShiftLeft(1, NameBits - 1 - bit)), p.len)

matches(p, name) == BitXor(BitAnd(name, len_mask(p)), p.bits) = 0

is_ancestor(p, other) == p.len <= other.len /\ matches(p, other.bits)

is_child(p, other) == is_ancestor(other, p)

\* a test that finds the prefixes below other only
is_compatible_below(p, other) == is_ancestor(other, p)

is_compatible_with(p, other) == is_ancestor(p, other) \/ is_child(p, other)

\* a sibling test that compares the bits only
is_sibling_bits(p, other) ==
    IF p.len > 0 THEN with_flipped_bit(p, p.len - 1).bits = other.bits ELSE FALSE

is_sibling(p, other) ==
    IF p.len > 0 THEN with_flipped_bit(p, p.len - 1) = other ELSE FALSE

\* a neighbour test that looks for the first difference only
is_neighbour_first(p, other) ==
    LET bit == leading_zeros(BitXor(p.bits, other.bits))
    IN  bit < p.len /\ bit < other.len

is_neighbour(p, other) ==
    LET bit == leading_zeros(BitXor(p.bits, other.bits))
    IN  IF bit < p.len /\ bit < other.len
        THEN LET bit2 == leading_zeros(BitXor(with_flipped_bit(p, bit).bits, other.bits))
             IN  bit2 >= p.len \/ bit2 >= other.len
        ELSE FALSE

substituted_in(p, name) ==
    BitOr(BitAnd(name, BitNot(len_mask(p))), p.bits)

\* an order that compares the lengths first
PrefixLessByLen(p, q) == p.len < q.len \/ (p.len = q.len /\ p.bits < q.bits)

\* the derived Ord of Prefix: bits first, then len
PrefixLess(p, q) == p.bits < q.bits \/ (p.bits = q.bits /\ p.len < q.len)

\* the canonical prefixes of every length
Prefixes ==
    { p \in [bits : Names, len : 0 .. NameBits] : p.bits % Pow2(NameBits - p.len) = 0 }

\* the keys of an ordered map, in key order
RECURSIVE SortedKeys(_)
SortedKeys(S) ==
    IF S = {} THEN << >>
    ELSE LET m == CHOOSE p \in S : \A q \in S : q = p \/ PrefixLess(p, q)
         IN  << m >> \o SortedKeys(S \ {m})

(***************************************************************************)
(* Simulation parameters (Params is outside the sources).                  *)
(***************************************************************************)
init_age == 4

\* drop_dist is one of these
DropDists == { "RevProp", "Exponential" }

(***************************************************************************)
(* Node (node.rs).                                                         *)
(***************************************************************************)
Node(name, age) == [name |-> name, age |-> age]

\* the ages are u8 values
AgeWord == 256

Ages == init_age .. (init_age + MaxAgeing)

Nodes == [name : Names, age : Ages]

\* Node::relocate: a fresh name inside prefix (extended by bit when there is
\* one), age + 1; rnd is the value random() returns; bit = -1 stands for None
relocate_node(n, pfx, bit, rnd) ==
    LET p == IF bit = -1 THEN pfx ELSE extend(pfx, bit)
    IN  Node(substituted_in(p, rnd), (n.age + 1) % AgeWord)

\* Node::rejoined
rejoined(n, min_age) ==
    IF n.age > min_age THEN Node(n.name, n.age - 1) ELSE n

is_adult(n) == n.age > 4

\* the weights are fractions; they are kept as integers in units of
\* 1 / WeightScale, a common multiple of every age and of 2^age
RECURSIVE Factorial(_)
Factorial(n) == IF n <= 1 THEN 1 ELSE n * Factorial(n - 1)

WeightScale == Factorial(init_age + MaxAgeing) * (2 ^ (init_age + MaxAgeing))

\* Node::drop_probability, in units of 1 / WeightScale
drop_probability(n, dist) ==
    IF dist = "RevProp" THEN (10 * WeightScale) \div n.age
    ELSE WeightScale \div (2 ^ n.age)

\* the derived Ord of Node: name first, then age
NodeLess(a, b) == a.name < b.name \/ (a.name = b.name /\ a.age < b.age)

RECURSIVE SortedNodes(_)
SortedNodes(S) ==
    IF S = {} THEN << >>
    ELSE LET m == CHOOSE a \in S : \A b \in S : b = a \/ NodeLess(a, b)
         IN  << m >> \o SortedNodes(S \ {m})

(***************************************************************************)
(* NetworkEvent and SectionEvent (churn.rs).                               *)
(***************************************************************************)
Live(n, count) == [type |-> "Live", node |-> n, count |-> count]
Lost(name) == [type |-> "Lost", name |-> name]
Gone(n) == [type |-> "Gone", node |-> n]
Relocated(n) == [type |-> "Relocated", node |-> n]
PrefixChange(p) == [type |-> "PrefixChange", prefix |-> p]
StartMerge(p) == [type |-> "StartMerge", prefix |-> p]

should_count(e) ==
    ~ (\/ e.type = "StartMerge"
       \/ e.type = "Gone"
       \/ (e.type = "Live" /\ ~ e.count))

NodeDropped(n) == [type |-> "NodeDropped", node |-> n]
NodeRejected(n) == [type |-> "NodeRejected", node |-> n]
NeedRelocate(n) == [type |-> "NeedRelocate", node |-> n]
RequestMerge == [type |-> "RequestMerge"]
RequestSplit == [type |-> "RequestSplit"]

\* whether e carries a node that is joining (Live(_, true))
IsJoin(e) == e.type = "Live" /\ e.count

RECURSIVE CountJoins(_)
CountJoins(evs) ==
    IF evs = << >> THEN 0
    ELSE (IF IsJoin(Head(evs)) THEN 1 ELSE 0) + CountJoins(Tail(evs))


(***************************************************************************)
(* The Section collaborator, from its contract: a prefix of its own, the   *)
(* member nodes, and crowd, the number of further members that are counted *)
(* and not named.  The drop weight a section reports is a number of its    *)
(* own keeping: the contract does not tie it to the members.               *)
(***************************************************************************)
\* Section::new
Section(p) == [prefix |-> p, nodes |-> {}, crowd |-> 0]

\* Section::len
section_len(s) == Cardinality(s.nodes) + s.crowd

\* Section::nodes, in the order of the derived Ord
section_nodes(s) == SortedNodes(s.nodes)

\* Section::elders: a distinguished subset of the members, here the oldest
elders(s) == { n \in s.nodes : \A m \in s.nodes : m.age <= n.age }

RECURSIVE SumWeights(_, _)
SumWeights(S, dist) ==
    IF S = {} THEN 0
    ELSE LET n == CHOOSE m \in S : TRUE
         IN  drop_probability(n, dist) + SumWeights(S \ {n}, dist)

\* Section::drop_weight: what a section may report: the sum of its members'
\* weights, or a sum that is one young member behind or ahead of it
drop_weights(s, dist) ==
    { SumWeights(s.nodes, dist),
      SumWeights(s.nodes, dist) + drop_probability(Node(0, init_age), dist) }
    \cup { SumWeights(s.nodes \ {n}, dist) : n \in s.nodes }

\* Section::recompute_drop_weight: the weight is the section's own keeping
recompute_drop_weight(s, dist) == s

\* Section::count_halves: the members each half would get
count_halves(s) ==
    << Cardinality({ n \in s.nodes : matches(extend(s.prefix, 0), n.name) })
           + (s.crowd \div 2),
       Cardinality({ n \in s.nodes : matches(extend(s.prefix, 1), n.name) })
           + (s.crowd - (s.crowd \div 2)) >>

\* Section::merge; its precondition is that the two are siblings
section_merge(s1, s2) ==
    [prefix |-> shorten(s1.prefix),
     nodes |-> s1.nodes \cup s2.nodes,
     crowd |-> s1.crowd + s2.crowd]

\* one half of Section::split
split_child(s, bit) ==
    [prefix |-> extend(s.prefix, bit),
     nodes |-> { n \in s.nodes : matches(extend(s.prefix, bit), n.name) },
     crowd |-> IF bit = 0 THEN s.crowd \div 2 ELSE s.crowd - (s.crowd \div 2)]

\* the preamble events Section::split may give the two children: none, or
\* the announcement of each child's prefix
SplitPreambles(sec0, sec1) ==
    { << << >>, << >> >>,
      << << PrefixChange(sec0.prefix) >>, << PrefixChange(sec1.prefix) >> >> }

\* what Section::handle_event does with the event itself: the sections it
\* may become and the SectionEvents it returns
Handled(s, e) ==
    IF e.type = "Live" /\ e.count
    THEN { [section |-> [s EXCEPT !.nodes = @ \cup {e.node}], result |-> << >>],
           [section |-> s, result |-> << NodeRejected(e.node) >>] }
    ELSE IF e.type = "Lost" /\ \E n \in s.nodes : n.name = e.name
    THEN { [section |-> [s EXCEPT !.nodes = @ \ {n}], result |-> << NodeDropped(n) >>]
           : n \in { m \in s.nodes : m.name = e.name } }
    ELSE IF e.type = "PrefixChange"
    THEN { [section |-> [s EXCEPT !.prefix = e.prefix], result |-> << >>] }
    ELSE { [section |-> s, result |-> << >>] }

\* the SectionEvents a section may add of its own accord: a split or merge
\* request, or the relocation of a member (which leaves the section)
Unsolicited(h) ==
    { [section |-> h.section, result |-> h.result \o << RequestSplit >>],
      [section |-> h.section, result |-> h.result \o << RequestMerge >>] }
    \cup
    { [section |-> [h.section EXCEPT !.nodes = @ \ {m}],
       result |-> h.result \o << NeedRelocate(m) >>]
      : m \in { n \in h.section.nodes : n.age < init_age + MaxAgeing } }

\* Section::handle_event: every outcome the contract allows; may_request says
\* whether the section may still add a SectionEvent of its own accord
handle_event(s, e, may_request) ==
    Handled(s, e) \cup
    (IF may_request THEN UNION { Unsolicited(h) : h \in Handled(s, e) } ELSE {})

(***************************************************************************)
(* Ordered maps and sequences.                                             *)
(***************************************************************************)
EmptyMap == [k \in {} |-> << >>]

MapRemove(m, k) == [x \in (DOMAIN m) \ {k} |-> m[x]]

MapRemoveAll(m, ks) == [x \in (DOMAIN m) \ ks |-> m[x]]

MapInsert(m, k, v) == [x \in (DOMAIN m) \cup {k} |-> IF x = k THEN v ELSE m[x]]

\* map.entry(k).or_insert_with(Vec::new).extend(evs)
Extended(q, k, evs) == MapInsert(q, k, (IF k \in DOMAIN q THEN q[k] ELSE << >>) \o evs)

Range(f) == { f[x] : x \in DOMAIN f }

Last(seq) == seq[Len(seq)]

Front(seq) == SubSeq(seq, 1, Len(seq) - 1)

\* the greatest and least key of a non-empty set
MaxKey(S) == CHOOSE p \in S : \A q \in S : q = p \/ PrefixLess(q, p)

\* a choice of the key that comes last
LastKey(S) == CHOOSE p \in S : \A q \in S : q = p \/ PrefixLess(q, p)

MinKey(S) == CHOOSE p \in S : \A q \in S : q = p \/ PrefixLess(p, q)


(***************************************************************************)
(* The state: the fields of Network (network.rs), the locals of            *)
(* process_events, and the bookkeeping of the run.                         *)
(***************************************************************************)
VARIABLES
    nodes,              \* Network::nodes: the sections, by prefix
    left_nodes,         \* Network::left_nodes
    event_queue,        \* Network::event_queue
    pending_merges,     \* Network::pending_merges: target -> (constituent -> done)
    output,             \* Network::output
    params,             \* Network::params
    pc,                 \* where the driver is: "idle" between calls, a place
                        \* of process_events, or "aborted" after a panic
    queue,              \* process_events: the part of the snapshot not yet visited
    prefix,             \* process_events: the prefix being visited
    events,             \* process_events: its events not yet delivered
    section_events,     \* process_events: the SectionEvents not yet processed
    merges_to_finalise, \* process_events: the ready merges not yet finalised
    ops,                \* calls of the random operators so far
    requests,           \* SectionEvents the sections added of their own accord so far
    in_transit,         \* Live(_, true) events enqueued and not yet delivered
    budget,             \* how many operator calls and requests the run may hold
    call                \* the call or step that was just taken, with its draws

vars == << nodes, left_nodes, event_queue, pending_merges, output, params, pc,
           queue, prefix, events, section_events, merges_to_finalise, ops,
           requests, in_transit, budget, call >>

\* the fields of Network
network == << nodes, left_nodes, event_queue, pending_merges, output >>

\* the locals of process_events
locals == << queue, prefix, events, section_events, merges_to_finalise >>

NoCall == [op |-> "none"]

(***************************************************************************)
(* Network: helpers.                                                       *)
(***************************************************************************)
\* Network::has_events
has_events(eq) == \E k \in DOMAIN eq : eq[k] # << >>

\* Network::total_drop_weight; weights[k] is what section k reports
RECURSIVE SumDropWeights(_, _)
SumDropWeights(weights, keys) ==
    IF keys = {} THEN 0
    ELSE LET k == CHOOSE x \in keys : TRUE
         IN  weights[k] + SumDropWeights(weights, keys \ {k})

total_drop_weight(weights) == SumDropWeights(weights, DOMAIN weights)

\* every way the sections may report their weights
RECURSIVE AllDropWeights(_, _, _)
AllDropWeights(nds, keys, dist) ==
    IF keys = {} THEN { [k \in {} |-> 0] }
    ELSE LET k == CHOOSE x \in keys : TRUE
         IN  { [x \in keys |-> IF x = k THEN w ELSE rest[x]] :
               w \in drop_weights(nds[k], dist),
               rest \in AllDropWeights(nds, keys \ {k}, dist) }

\* a lookup that takes the first key below from_name(name), not the last
prefix_for_node_first(nds, name) ==
    LET below == { p \in DOMAIN nds : PrefixLess(p, from_name(name)) }
    IN  IF below = {} THEN [ok |-> FALSE, pfx |-> empty]
        ELSE [ok |-> matches(MinKey(below), name), pfx |-> MinKey(below)]

\* Network::prefix_for_node: the last key below from_name(name); ok is FALSE
\* when the unwrap or the assertion panics
prefix_for_node(nds, name) ==
    LET below == { p \in DOMAIN nds : PrefixLess(p, from_name(name)) }
    IN  IF below = {} THEN [ok |-> FALSE, pfx |-> empty]
        ELSE LET pfx == MaxKey(below)
             IN  [ok |-> matches(pfx, name), pfx |-> pfx]

\* sort_by_key is stable: an element goes behind those with a key not greater
RECURSIVE InsertByKey(_, _)
InsertByKey(sorted, x) ==
    IF sorted = << >> THEN << x >>
    ELSE IF Last(sorted).key <= x.key THEN sorted \o << x >>
    ELSE InsertByKey(Front(sorted), x) \o << Last(sorted) >>

RECURSIVE SortByKey(_)
SortByKey(seq) ==
    IF seq = << >> THEN << >>
    ELSE InsertByKey(SortByKey(Front(seq)), Last(seq))

Values(seq) == [i \in DOMAIN seq |-> seq[i].val]

\* the loop of Network::merged_section: sort by prefix length, merge the
\* last two; ok is FALSE when Section::merge is given two sections that are
\* not siblings or when there is no section to return
RECURSIVE Combine(_)
Combine(sections) ==
    IF Len(sections) = 0 THEN [ok |-> FALSE, section |-> Section(empty)]
    ELSE IF Len(sections) = 1 THEN [ok |-> TRUE, section |-> sections[1]]
    ELSE LET sorted == Values(SortByKey([i \in DOMAIN sections |->
                           [key |-> sections[i].prefix.len, val |-> sections[i]]]))
             section1 == sorted[Len(sorted)]
             section2 == sorted[Len(sorted) - 1]
         IN  IF ~ is_sibling(section1.prefix, section2.prefix)
             THEN [ok |-> FALSE, section |-> section1]
             ELSE Combine(SubSeq(sorted, 1, Len(sorted) - 2)
                          \o << section_merge(section1, section2) >>)

RECURSIVE SectionsAt(_, _)
SectionsAt(nds, prefixes) ==
    IF prefixes = << >> THEN << >>
    ELSE (IF Head(prefixes) \in DOMAIN nds THEN << nds[Head(prefixes)] >> ELSE << >>)
         \o SectionsAt(nds, Tail(prefixes))

\* Network::merged_section: the section the given prefixes (in key order)
\* merge into; the destructive variant also removes them from the maps
merged_section(nds, prefixes) == Combine(SectionsAt(nds, prefixes))

\* one event per elder: Gone for a lost one, Live(_, false) for a gained one
RECURSIVE ElderEvents(_, _)
ElderEvents(ns, lost) ==
    IF ns = << >> THEN << >>
    ELSE << (IF lost THEN Gone(Head(ns)) ELSE Live(Head(ns), FALSE)) >>
         \o ElderEvents(Tail(ns), lost)

\* a preamble that announces the gained elders before the lost ones
calculate_merge_events_gained_first(nds, merged, pfx) ==
    LET old_elders == elders(nds[pfx])
        new_elders == elders(merged)
    IN  << StartMerge(merged.prefix) >>
        \o ElderEvents(SortedNodes(new_elders \ old_elders), FALSE)
        \o ElderEvents(SortedNodes(old_elders \ new_elders), TRUE)
        \o << PrefixChange(merged.prefix) >>

\* Network::calculate_merge_events
calculate_merge_events(nds, merged, pfx) ==
    LET old_elders == elders(nds[pfx])
        new_elders == elders(merged)
    IN  << StartMerge(merged.prefix) >>
        \o ElderEvents(SortedNodes(old_elders \ new_elders), TRUE)
        \o ElderEvents(SortedNodes(new_elders \ old_elders), FALSE)
        \o << PrefixChange(merged.prefix) >>

\* the early return of Network::merge: the first compatible pending merge
\* is an ancestor of the target
subsumed(pms, merged_pfx) ==
    LET compatible == { k \in DOMAIN pms : is_compatible_with(k, merged_pfx) }
    IN  compatible # {} /\ is_ancestor(MinKey(compatible), merged_pfx)

\* Network::merge: what it makes of the given maps; ok is FALSE on a panic
merge(nds, eq, pms, pfx) ==
    LET merged_pfx == shorten(pfx)
        compatible == { k \in DOMAIN pms : is_compatible_with(k, merged_pfx) }
        pms1 == IF compatible = {} THEN pms ELSE MapRemove(pms, MinKey(compatible))
        prefixes == SortedKeys({ k \in DOMAIN nds : is_ancestor(merged_pfx, k) })
        pending_merge == [k \in Range(prefixes) |-> FALSE]
        merged == merged_section(nds, prefixes)
    IN  IF subsumed(pms, merged_pfx)
        THEN [ok |-> TRUE, initiated |-> FALSE, event_queue |-> eq, pending_merges |-> pms]
        ELSE IF ~ merged.ok
        THEN [ok |-> FALSE, initiated |-> FALSE, event_queue |-> eq, pending_merges |-> pms]
        ELSE [ok |-> TRUE, initiated |-> TRUE,
              event_queue |-> [k \in (DOMAIN eq) \cup Range(prefixes) |->
                                 IF k \in Range(prefixes)
                                 THEN calculate_merge_events(nds, merged.section, k)
                                 ELSE eq[k]],
              pending_merges |-> MapInsert(pms1, merged_pfx, pending_merge)]

\* PendingMerge::completed
completed(pm, pfx) == IF pfx \in DOMAIN pm THEN [pm EXCEPT ![pfx] = TRUE] ELSE pm

\* a test that is content with one acknowledgment
is_done_once(pm) == \E k \in DOMAIN pm : pm[k]

\* PendingMerge::is_done
is_done(pm) == \A k \in DOMAIN pm : pm[k]


\* the radix of the sort key in Network::relocate
SizeRadix == 10000

\* a walk that looks at the prefix one shorten further
RECURSIVE Walk_further(_, _, _)
Walk_further(nds, pfx, steps) ==
    IF pfx \in DOMAIN nds THEN << pfx >>
    ELSE IF steps = 0 THEN << >>
    ELSE Walk_further(nds, shorten(pfx), steps - 1)

\* the inner loop of Network::relocate: shorten pfx up to steps times until
\* it is a live prefix
RECURSIVE Walk(_, _, _)
Walk(nds, pfx, steps) ==
    IF steps = 0 THEN << >>
    ELSE IF pfx \in DOMAIN nds THEN << pfx >>
    ELSE Walk(nds, shorten(pfx), steps - 1)

\* the outer loop of Network::relocate, from bit position pos on
RECURSIVE Neighbours(_, _, _)
Neighbours(nds, src_section, pos) ==
    IF pos >= src_section.len THEN << >>
    ELSE Walk(nds, with_flipped_bit(src_section, pos), src_section.len - pos)
         \o Neighbours(nds, src_section, pos + 1)

\* the key Network::relocate sorts the candidates by
relocate_key(nds, pfx) == pfx.len * SizeRadix + section_len(nds[pfx])

\* a relocation that counts as one churn event
relocate_counted_once(nds, eq, out, node, distant, rnd_name, rnd_relocated) ==
    LET new_node == IF distant THEN Node(rnd_name, node.age) ELSE node
        src == prefix_for_node(nds, new_node.name)
        src_section == src.pfx
        found == Neighbours(nds, src_section, 0)
        neighbours == found \o << src_section >>
        sorted == Values(SortByKey([i \in DOMAIN neighbours |->
                      [key |-> relocate_key(nds, neighbours[i]), val |-> neighbours[i]]]))
        neighbour == sorted[1]
        halves == count_halves(nds[neighbour])
        bit == IF halves[1] = halves[2] THEN -1
               ELSE IF halves[1] > halves[2] THEN 1 ELSE 0
        relocated == relocate_node(new_node, neighbour, bit, rnd_relocated)
        out1 == [out EXCEPT !.relocations = @ + 1, !.churn = @ + 1]
    IN  IF ~ src.ok
        THEN [ok |-> FALSE, event_queue |-> eq, output |-> out1]
        ELSE IF \E i \in DOMAIN found : ~ is_neighbour(found[i], src_section)
        THEN [ok |-> FALSE, event_queue |-> eq, output |-> out1]
        ELSE [ok |-> TRUE,
              event_queue |-> Extended(eq, neighbour, << Live(relocated, TRUE) >>),
              output |-> out1,
              src_section |-> src_section,
              neighbours |-> neighbours,
              neighbour |-> neighbour,
              bit |-> bit,
              node |-> relocated,
              overflow |-> new_node.age + 1 >= AgeWord]

\* Network::relocate; distant, rnd_name and rnd_relocated are what random()
\* returns; ok is FALSE on a panic; overflow says that age += 1 leaves the
\* u8 range, which panics in a build with overflow checks and wraps in one
\* without
relocate(nds, eq, out, node, distant, rnd_name, rnd_relocated) ==
    LET new_node == IF distant THEN Node(rnd_name, node.age) ELSE node
        src == prefix_for_node(nds, new_node.name)
        src_section == src.pfx
        found == Neighbours(nds, src_section, 0)
        neighbours == found \o << src_section >>
        sorted == Values(SortByKey([i \in DOMAIN neighbours |->
                      [key |-> relocate_key(nds, neighbours[i]), val |-> neighbours[i]]]))
        neighbour == sorted[1]
        halves == count_halves(nds[neighbour])
        bit == IF halves[1] = halves[2] THEN -1
               ELSE IF halves[1] > halves[2] THEN 1 ELSE 0
        relocated == relocate_node(new_node, neighbour, bit, rnd_relocated)
        out1 == [out EXCEPT !.relocations = @ + 1, !.churn = @ + 2]
    IN  IF ~ src.ok
        THEN [ok |-> FALSE, event_queue |-> eq, output |-> out1]
        ELSE IF \E i \in DOMAIN found : ~ is_neighbour(found[i], src_section)
        THEN [ok |-> FALSE, event_queue |-> eq, output |-> out1]
        ELSE [ok |-> TRUE,
              event_queue |-> Extended(eq, neighbour, << Live(relocated, TRUE) >>),
              output |-> out1,
              src_section |-> src_section,
              neighbours |-> neighbours,
              neighbour |-> neighbour,
              bit |-> bit,
              node |-> relocated,
              overflow |-> new_node.age + 1 >= AgeWord]

\* number of equal steps the draw random::<f64>() of [0, 1) is taken in
RandomSteps == 4

\* the first loop of Network::drop_random_node over the sections in key
\* order; weights and drop are in units of 1 / RandomSteps
RECURSIVE PickSection(_, _, _)
PickSection(weights, keys, drop) ==
    IF keys = << >> THEN [found |-> FALSE, drop |-> drop]
    ELSE IF weights[Head(keys)] * RandomSteps > drop
    THEN [found |-> TRUE, pfx |-> Head(keys), drop |-> drop]
    ELSE PickSection(weights, Tail(keys), drop - weights[Head(keys)] * RandomSteps)

\* the second loop of Network::drop_random_node over the nodes of the section
RECURSIVE PickNode(_, _, _)
PickNode(ns, drop, dist) ==
    IF ns = << >> THEN [found |-> FALSE]
    ELSE IF drop_probability(Head(ns), dist) * RandomSteps > drop
    THEN [found |-> TRUE, node |-> Head(ns)]
    ELSE PickNode(Tail(ns), drop - drop_probability(Head(ns), dist) * RandomSteps, dist)

\* *map.entry(age).or_insert(0) += 1
Counted(dist, age) ==
    MapInsert(dist, age, (IF age \in DOMAIN dist THEN dist[age] ELSE 0) + 1)

\* the shuffles of a sequence
Shuffles(seq) ==
    { [i \in DOMAIN seq |-> seq[f[i]]] :
      f \in { g \in [DOMAIN seq -> DOMAIN seq] :
              \A i, j \in DOMAIN seq : g[i] = g[j] => i = j } }


(***************************************************************************)
(* Network::new.                                                           *)
(***************************************************************************)
NewOutput ==
    [adds |-> 0, drops |-> 0, drops_dist |-> [a \in {} |-> 0], rejoins |-> 0,
     relocations |-> 0, rejections |-> 0, churn |-> 0]

Init ==
    /\ nodes = [k \in {empty} |-> Section(empty)]
    /\ left_nodes = << >>
    /\ event_queue = EmptyMap
    /\ pending_merges = [k \in {} |-> [c \in {} |-> FALSE]]
    /\ output = NewOutput
    /\ params \in [init_age : {init_age}, drop_dist : DropDists]
    /\ pc = "idle"
    /\ queue = EmptyMap
    /\ prefix = empty
    /\ events = << >>
    /\ section_events = << >>
    /\ merges_to_finalise = << >>
    /\ ops = 0
    /\ requests = 0
    /\ in_transit = 0
    /\ budget = [ops |-> MaxOps, requests |-> MaxSectionEvents]
    /\ call = NoCall

(***************************************************************************)
(* Networks that have grown: states the simulation is in after more calls  *)
(* than the budgets above hold.  The runs from them take the same steps.   *)
(***************************************************************************)
\* the prefix with the given bits, most significant first
Path(bits) == IF bits = << >> THEN empty
              ELSE IF Len(bits) = 1 THEN extend(empty, bits[1])
              ELSE IF Len(bits) = 2 THEN extend(extend(empty, bits[1]), bits[2])
              ELSE extend(extend(extend(empty, bits[1]), bits[2]), bits[3])

\* some tries the splits of the root lead to
GrownTries ==
    { { empty },
      { Path(<<0>>), Path(<<1>>) },
      { Path(<<0>>), Path(<<1, 0>>), Path(<<1, 1>>) },
      { Path(<<0, 0>>), Path(<<0, 1>>), Path(<<1>>) } }

\* a section with one member of the first age, and with the given crowd
Settled(p, crowd) ==
    [prefix |-> p, nodes |-> { Node(p.bits, init_age) }, crowd |-> crowd]

\* the fields and locals that are the same in every network between calls
Quiet ==
    /\ event_queue = EmptyMap
    /\ output = NewOutput
    /\ pc = "idle"
    /\ queue = EmptyMap
    /\ prefix = empty
    /\ events = << >>
    /\ section_events = << >>
    /\ merges_to_finalise = << >>
    /\ ops = 0
    /\ requests = 0
    /\ in_transit = 0
    /\ budget = [ops |-> GrownOps, requests |-> GrownRequests]
    /\ call = NoCall

\* every section has a member; one of them may be crowded
InitCrowded ==
    /\ \E trie \in GrownTries, crowded \in SUBSET Prefixes :
          /\ crowded \subseteq trie /\ Cardinality(crowded) <= 1
          /\ nodes = [p \in trie |-> Settled(p, IF p \in crowded THEN SizeRadix ELSE 0)]
    /\ left_nodes = << >>
    /\ pending_merges = EmptyMap
    /\ params \in [init_age : {init_age}, drop_dist : DropDists]
    /\ Quiet

\* a node of some age has dropped and may rejoin
InitLeft ==
    /\ nodes = [p \in { Path(<<0>>), Path(<<1>>) } |-> Settled(p, 0)]
    /\ \E name \in { 1, Word - 1 }, age \in (init_age - 1) .. (init_age + MaxAgeing) :
          left_nodes = << Node(name, age) >>
    /\ pending_merges = EmptyMap
    /\ params \in [init_age : {init_age}, drop_dist : DropDists]
    /\ Quiet

\* the trie of the merges in progress
MergingTrie ==
    { Path(<<0>>), Path(<<1, 0, 0>>), Path(<<1, 0, 1>>),
      Path(<<1, 1, 0>>), Path(<<1, 1, 1>>) }

\* process_events is under way: the sections 100 and 110 have asked for a
\* merge in the last iteration, their preambles are in the snapshot, and the
\* section 0, the first of this iteration, asks for one now
InitMerging ==
    /\ nodes = [p \in MergingTrie |-> Section(p)]
    /\ left_nodes = << >>
    /\ pending_merges =
          [t \in { Path(<<1, 0>>), Path(<<1, 1>>) } |->
              [k \in { p \in MergingTrie : is_ancestor(t, p) } |-> FALSE]]
    /\ event_queue = EmptyMap
    /\ output = NewOutput
    /\ params \in [init_age : {init_age}, drop_dist : DropDists]
    /\ pc = "for_section_event"
    /\ queue = [p \in MergingTrie \ { Path(<<0>>) } |->
                   << StartMerge(shorten(p)), PrefixChange(shorten(p)) >>]
    /\ prefix = Path(<<0>>)
    /\ events = << >>
    /\ section_events = << RequestMerge >>
    /\ merges_to_finalise = << >>
    /\ ops = 0
    /\ requests = 1
    /\ in_transit = 0
    /\ budget = [ops |-> GrownOps, requests |-> GrownRequests + 1]
    /\ call = NoCall

\* process_events is under way: the section 1 has split in the last
\* iteration, the preambles of its children are in the snapshot, and the
\* section 0, the first of this iteration, asks for a merge now
InitAfterSplit ==
    /\ nodes = [p \in { Path(<<0>>), Path(<<1, 0>>), Path(<<1, 1>>) } |-> Section(p)]
    /\ left_nodes = << >>
    /\ pending_merges = EmptyMap
    /\ event_queue = EmptyMap
    /\ output = NewOutput
    /\ params \in [init_age : {init_age}, drop_dist : DropDists]
    /\ pc = "for_section_event"
    /\ queue = [p \in { Path(<<1, 0>>), Path(<<1, 1>>) } |-> << PrefixChange(p) >>]
    /\ prefix = Path(<<0>>)
    /\ events = << >>
    /\ section_events = << RequestMerge >>
    /\ merges_to_finalise = << >>
    /\ ops = 0
    /\ requests = 1
    /\ in_transit = 0
    /\ budget = [ops |-> GrownOps, requests |-> GrownRequests + 1]
    /\ call = NoCall

\* process_events is under way: the section 0, the first of this iteration,
\* holds a node that has aged, has had another one relocated to the section
\* 1, whose queue holds it now, and asks for a merge
InitAged ==
    /\ nodes = [p \in { Path(<<0>>), Path(<<1>>) } |->
                   [prefix |-> p,
                    nodes |-> { Node(p.bits, init_age + 1 - p.bits \div Pow2(NameBits - 1)) },
                    crowd |-> 0]]
    /\ left_nodes = << >>
    /\ pending_merges = EmptyMap
    /\ event_queue = [p \in { Path(<<1>>) } |->
                         << Live(Node(Word - 1, init_age + 1), TRUE) >>]
    /\ output = NewOutput
    /\ params \in [init_age : {init_age}, drop_dist : DropDists]
    /\ pc = "for_section_event"
    /\ queue = EmptyMap
    /\ prefix = Path(<<0>>)
    /\ events = << >>
    /\ section_events = << RequestMerge >>
    /\ merges_to_finalise = << >>
    /\ ops = 0
    /\ requests = 1
    /\ in_transit = 1
    /\ budget = [ops |-> GrownOps, requests |-> GrownRequests + 1]
    /\ call = NoCall

\* process_events is under way: the section 0, the first of this iteration,
\* has given up its only member, a node that has been relocated until its
\* age is the greatest a u8 holds, for another relocation
InitOld ==
    /\ nodes = [p \in { Path(<<0>>), Path(<<1>>) } |->
                   IF p = Path(<<0>>) THEN Section(p) ELSE Settled(p, 0)]
    /\ left_nodes = << >>
    /\ pending_merges = EmptyMap
    /\ event_queue = EmptyMap
    /\ output = NewOutput
    /\ params \in [init_age : {init_age}, drop_dist : DropDists]
    /\ pc = "for_section_event"
    /\ queue = EmptyMap
    /\ prefix = Path(<<0>>)
    /\ events = << >>
    /\ section_events = << NeedRelocate(Node(0, AgeWord - 1)) >>
    /\ merges_to_finalise = << >>
    /\ ops = 0
    /\ requests = 1
    /\ in_transit = 0
    /\ budget = [ops |-> 0, requests |-> 1]
    /\ call = NoCall

InitGrown ==
    InitCrowded \/ InitLeft \/ InitMerging \/ InitAfterSplit \/ InitAged \/ InitOld

\* a panic (a failed assertion or unwrap) ends the run
Panic(op) ==
    /\ pc' = "aborted"
    /\ call' = [op |-> op]
    /\ UNCHANGED << network, params, budget, locals, ops, requests, in_transit >>

(***************************************************************************)
(* The random operators.                                                   *)
(***************************************************************************)
add_random_node ==
    /\ pc = "idle"
    /\ ops < budget.ops
    /\ \E name \in Names :
          LET node == Node(name, params.init_age)
              found == prefix_for_node(nodes, name)
          IN  IF ~ found.ok THEN Panic("add_random_node")
              ELSE /\ output' = [output EXCEPT !.adds = @ + 1, !.churn = @ + 1]
                   /\ event_queue' = Extended(event_queue, found.pfx, << Live(node, TRUE) >>)
                   /\ in_transit' = in_transit + 1
                   /\ ops' = ops + 1
                   /\ call' = [op |-> "add_random_node", node |-> node, prefix |-> found.pfx]
                   /\ UNCHANGED << nodes, left_nodes, pending_merges, params, budget, pc,
                                   locals, requests >>

drop_random_node ==
    /\ pc = "idle"
    /\ ops < budget.ops
    /\ \E step \in 0 .. (RandomSteps - 1),
          weights \in AllDropWeights(nodes, DOMAIN nodes, params.drop_dist) :
          LET total_weight == total_drop_weight(weights)
              drop == step * total_weight
              prefix_and_section == PickSection(weights, SortedKeys(DOMAIN nodes), drop)
              node == IF prefix_and_section.found
                      THEN PickNode(section_nodes(nodes[prefix_and_section.pfx]),
                                    prefix_and_section.drop, params.drop_dist)
                      ELSE [found |-> FALSE]
          IN  /\ output' = [output EXCEPT
                     !.drops = @ + 1,
                     !.churn = @ + 1,
                     !.drops_dist = IF node.found THEN Counted(@, node.node.age) ELSE @]
              /\ event_queue' = IF node.found
                                THEN Extended(event_queue, prefix_and_section.pfx,
                                              << Lost(node.node.name) >>)
                                ELSE event_queue
              /\ ops' = ops + 1
              /\ call' = [op |-> "drop_random_node", weights |-> weights,
                          found |-> node.found]
              /\ UNCHANGED << nodes, left_nodes, pending_merges, params, budget, pc,
                              locals,
                              requests, in_transit >>

rejoin_random_node ==
    /\ pc = "idle"
    /\ ops < budget.ops
    /\ \E shuffled \in Shuffles(left_nodes) :
          IF shuffled = << >>
          THEN /\ output' = [output EXCEPT !.rejoins = @ + 1, !.churn = @ + 1]
               /\ ops' = ops + 1
               /\ call' = [op |-> "rejoin_random_node", popped |-> FALSE]
               /\ UNCHANGED << nodes, left_nodes, event_queue, pending_merges,
                               params, budget,
                               pc, locals, requests, in_transit >>
          ELSE LET node == rejoined(Last(shuffled), params.init_age)
                   found == prefix_for_node(nodes, node.name)
               IN  IF ~ found.ok THEN Panic("rejoin_random_node")
                   ELSE /\ output' = [output EXCEPT !.rejoins = @ + 1, !.churn = @ + 1]
                        /\ left_nodes' = Front(shuffled)
                        /\ event_queue' = Extended(event_queue, found.pfx,
                                                   << Live(node, TRUE) >>)
                        /\ in_transit' = in_transit + 1
                        /\ ops' = ops + 1
                        /\ call' = [op |-> "rejoin_random_node", popped |-> TRUE,
                                    left |-> Last(shuffled), node |-> node,
                                    prefix |-> found.pfx]
                        /\ UNCHANGED << nodes, pending_merges, params, budget, pc, locals,
                                        requests >>

(***************************************************************************)
(* Network::process_events, step by step.                                  *)
(***************************************************************************)
\* the call
process_events ==
    /\ pc = "idle"
    /\ pc' = "while"
    /\ call' = [op |-> "process_events"]
    /\ UNCHANGED << network, params, budget, locals, ops, requests, in_transit >>

\* the head of the while loop: snapshot the queues, or go on to the merges
while_has_events ==
    /\ pc = "while"
    /\ IF has_events(event_queue)
       THEN /\ queue' = event_queue
            /\ event_queue' = EmptyMap
            /\ merges_to_finalise' = merges_to_finalise
            /\ pc' = "for_prefix"
       ELSE /\ merges_to_finalise' =
                   SortedKeys({ k \in DOMAIN pending_merges : is_done(pending_merges[k]) })
            /\ pc' = "finalise"
            /\ UNCHANGED << queue, event_queue >>
    /\ call' = NoCall
    /\ UNCHANGED << nodes, left_nodes, pending_merges, output, params, budget,
                    prefix, events,
                    section_events, ops, requests, in_transit >>

\* the for loop over the snapshot, in key order
for_prefix ==
    /\ pc = "for_prefix"
    /\ IF DOMAIN queue = {}
       THEN /\ pc' = "while"
            /\ UNCHANGED << queue, prefix, events, section_events >>
       ELSE /\ prefix' = MinKey(DOMAIN queue)
            /\ events' = queue[MinKey(DOMAIN queue)]
            /\ queue' = MapRemove(queue, MinKey(DOMAIN queue))
            /\ section_events' = << >>
            /\ pc' = "for_event"
    /\ call' = NoCall
    /\ UNCHANGED << network, params, budget, merges_to_finalise, ops, requests,
                    in_transit >>

IsRequest(ev) == ev.type \in { "RequestSplit", "RequestMerge", "NeedRelocate" }

\* the for loop over the events of the prefix: deliver one event
for_event ==
    /\ pc = "for_event"
    /\ IF events = << >>
       THEN /\ pc' = "for_section_event"
            /\ call' = NoCall
            /\ UNCHANGED << nodes, pending_merges, events, section_events, requests,
                            in_transit >>
       ELSE LET event == Head(events)
            IN  /\ events' = Tail(events)
                /\ pc' = pc
                /\ IF prefix \in DOMAIN nodes
                   THEN \E h \in handle_event(nodes[prefix], event,
                                              requests < budget.requests) :
                           /\ nodes' = [nodes EXCEPT ![prefix] = h.section]
                           /\ section_events' = section_events \o h.result
                           /\ requests' = requests + Len(SelectSeq(h.result, IsRequest))
                           /\ in_transit' = IF IsJoin(event) THEN in_transit - 1
                                            ELSE in_transit
                   ELSE UNCHANGED << nodes, section_events, requests, in_transit >>
                /\ pending_merges' =
                       IF event.type = "PrefixChange" /\ event.prefix \in DOMAIN pending_merges
                       THEN [pending_merges EXCEPT
                                ![event.prefix] = completed(@, prefix)]
                       ELSE pending_merges
                /\ call' = [op |-> "handle_event", event |-> event, prefix |-> prefix,
                            delivered |-> prefix \in DOMAIN nodes]
    /\ UNCHANGED << left_nodes, event_queue, output, params, budget, queue, prefix,
                    merges_to_finalise, ops >>


\* a split that leaves the queue of the parent in place
split_queues_kept(eq, pfx, sec0, sec1, evs) ==
    Extended(Extended(eq, sec0.prefix, evs[1]), sec1.prefix, evs[2])

\* the queues after the split of the section at prefix into sec0 and sec1,
\* whose preambles are evs[1] and evs[2]
split_queues(eq, pfx, sec0, sec1, evs) ==
    Extended(Extended(MapRemove(eq, pfx), sec0.prefix, evs[1]), sec1.prefix, evs[2])

\* the sections after the split of the section at prefix into sec0 and sec1
split_nodes(nds, pfx, sec0, sec1, dist) ==
    MapInsert(MapInsert(MapRemove(nds, pfx),
                        sec0.prefix, recompute_drop_weight(sec0, dist)),
              sec1.prefix, recompute_drop_weight(sec1, dist))

\* Network::process_single_event for the next SectionEvent of the prefix
for_section_event ==
    /\ pc = "for_section_event"
    /\ IF section_events = << >>
       THEN /\ pc' = "for_prefix"
            /\ call' = NoCall
            /\ UNCHANGED << network, section_events, in_transit >>
       ELSE LET event == Head(section_events)
                done == [op |-> "process_single_event", event |-> event, prefix |-> prefix]
            IN
            IF event.type = "NodeDropped"
            THEN /\ left_nodes' = Append(left_nodes, event.node)
                 /\ section_events' = Tail(section_events)
                 /\ call' = done
                 /\ UNCHANGED << nodes, event_queue, pending_merges, output, pc,
                                 in_transit >>
            ELSE IF event.type = "NodeRejected"
            THEN /\ output' = [output EXCEPT !.rejections = @ + 1]
                 /\ section_events' = Tail(section_events)
                 /\ call' = done
                 /\ UNCHANGED << nodes, left_nodes, event_queue, pending_merges, pc,
                                 in_transit >>
            ELSE IF event.type = "NeedRelocate"
            THEN \E distant \in BOOLEAN, rnd_name \in Names, rnd_relocated \in Names,
                    checked \in BOOLEAN :
                    /\ (~ distant => rnd_name = event.node.name)
                    /\ (checked => event.node.age + 1 >= AgeWord)
                    /\ LET r == relocate(nodes, event_queue, output, event.node,
                                         distant, rnd_name, rnd_relocated)
                       IN  IF ~ r.ok
                           THEN /\ pc' = "aborted"
                                /\ call' = [op |-> "relocate"]
                                /\ UNCHANGED << network, section_events, in_transit >>
                           ELSE IF r.overflow /\ checked
                           THEN /\ pc' = "aborted"
                                /\ call' = [op |-> "age_overflow", node |-> event.node]
                                /\ UNCHANGED << network, section_events, in_transit >>
                           ELSE /\ event_queue' = r.event_queue
                                /\ output' = r.output
                                /\ in_transit' = in_transit + 1
                                /\ section_events' = Tail(section_events)
                                /\ call' = [done EXCEPT !.op = "relocate"] @@
                                           [src_section |-> r.src_section,
                                            neighbours |-> r.neighbours,
                                            neighbour |-> r.neighbour,
                                            bit |-> r.bit,
                                            node |-> r.node]
                                /\ UNCHANGED << nodes, left_nodes, pending_merges, pc >>
            ELSE IF event.type = "RequestMerge"
            THEN LET r == merge(nodes, event_queue, pending_merges, prefix)
                 IN  IF ~ r.ok
                     THEN /\ pc' = "aborted"
                          /\ call' = [op |-> "merge"]
                          /\ UNCHANGED << network, section_events, in_transit >>
                     ELSE /\ event_queue' = r.event_queue
                          /\ pending_merges' = r.pending_merges
                          /\ section_events' = Tail(section_events)
                          /\ call' = [op |-> "merge", prefix |-> prefix,
                                      initiated |-> r.initiated]
                          /\ UNCHANGED << nodes, left_nodes, output, pc, in_transit >>
            ELSE \* RequestSplit
                 IF prefix \notin DOMAIN nodes
                 THEN /\ section_events' = Tail(section_events)
                      /\ call' = [op |-> "split", prefix |-> prefix, live |-> FALSE]
                      /\ UNCHANGED << network, pc, in_transit >>
                 ELSE LET sec0 == split_child(nodes[prefix], 0)
                          sec1 == split_child(nodes[prefix], 1)
                      IN  \E evs \in SplitPreambles(sec0, sec1) :
                             /\ event_queue' =
                                    split_queues(event_queue, prefix, sec0, sec1, evs)
                             /\ nodes' =
                                    split_nodes(nodes, prefix, sec0, sec1,
                                                params.drop_dist)
                             /\ output' = [output EXCEPT !.churn = @ + 1]
                             /\ section_events' = Tail(section_events)
                             /\ call' = [op |-> "split", prefix |-> prefix, live |-> TRUE,
                                         ev0 |-> evs[1], ev1 |-> evs[2]]
                             /\ UNCHANGED << left_nodes, pending_merges, pc, in_transit >>
    /\ UNCHANGED << params, budget, queue, prefix, events, merges_to_finalise, ops,
                    requests >>

\* the last loop of process_events: finalise one ready merge, or return
finalise ==
    /\ pc = "finalise"
    /\ IF merges_to_finalise = << >>
       THEN /\ pc' = "idle"
            /\ call' = [op |-> "returned"]
            /\ UNCHANGED << network, merges_to_finalise >>
       ELSE LET pfx == Head(merges_to_finalise)
                pending_merge == pending_merges[pfx]
                constituents == SortedKeys(DOMAIN pending_merge)
                merged == merged_section(nodes, constituents)
            IN  IF ~ merged.ok
                THEN /\ pc' = "aborted"
                     /\ call' = [op |-> "finalise"]
                     /\ UNCHANGED << network, merges_to_finalise >>
                ELSE /\ output' = [output EXCEPT !.churn = @ + 1]
                     /\ pending_merges' = MapRemove(pending_merges, pfx)
                     /\ event_queue' = MapRemoveAll(event_queue, DOMAIN pending_merge)
                     /\ nodes' = MapInsert(MapRemoveAll(nodes, DOMAIN pending_merge),
                                           merged.section.prefix,
                                           recompute_drop_weight(merged.section,
                                                                 params.drop_dist))
                     /\ merges_to_finalise' = Tail(merges_to_finalise)
                     /\ pc' = pc
                     /\ call' = [op |-> "finalise", prefix |-> pfx,
                                 constituents |-> DOMAIN pending_merge,
                                 merged |-> merged.section.prefix]
                     /\ UNCHANGED left_nodes
    /\ UNCHANGED << params, budget, queue, prefix, events, section_events, ops, requests,
                    in_transit >>

Next ==
    \/ add_random_node
    \/ drop_random_node
    \/ rejoin_random_node
    \/ process_events
    \/ while_has_events
    \/ for_prefix
    \/ for_event
    \/ for_section_event
    \/ finalise

Spec == Init /\ [][Next]_vars

\* the same steps from a grown network
SpecGrown == InitGrown /\ [][Next]_vars

(***************************************************************************)
(* Prefix on its own: a prefix value and the methods applied to it.  The   *)
(* variable prefix holds the value, call the last method and its           *)
(* arguments; the network stays as Network::new leaves it.                 *)
(***************************************************************************)
\* a prefix as the methods of Prefix build them
InitPrefix ==
    /\ nodes = [k \in {empty} |-> Section(empty)]
    /\ left_nodes = << >>
    /\ pending_merges = [k \in {} |-> [c \in {} |-> FALSE]]
    /\ params \in [init_age : {init_age}, drop_dist : DropDists]
    /\ event_queue = EmptyMap
    /\ output = NewOutput
    /\ pc = "prefix"
    /\ queue = EmptyMap
    /\ prefix \in Prefixes
    /\ events = << >>
    /\ section_events = << >>
    /\ merges_to_finalise = << >>
    /\ ops = 0
    /\ requests = 0
    /\ in_transit = 0
    /\ budget = [ops |-> 0, requests |-> 0]
    /\ call = NoCall

\* the values a u8 argument is drawn from
BitArgs == 0 .. 3

prefix_extend ==
    /\ pc = "prefix"
    /\ \E bit \in BitArgs :
          /\ prefix' = extend(prefix, bit)
          /\ call' = [op |-> "extend", self |-> prefix, bit |-> bit]
    /\ UNCHANGED << network, params, pc, queue, events, section_events,
                    merges_to_finalise, ops, requests, in_transit, budget >>

prefix_shorten ==
    /\ pc = "prefix"
    /\ prefix' = shorten(prefix)
    /\ call' = [op |-> "shorten", self |-> prefix]
    /\ UNCHANGED << network, params, pc, queue, events, section_events,
                    merges_to_finalise, ops, requests, in_transit, budget >>

\* with_flipped_bit as its callers use it: a bit within the prefix
prefix_with_flipped_bit ==
    /\ pc = "prefix"
    /\ \E bit \in 0 .. (prefix.len - 1) :
          /\ prefix' = with_flipped_bit(prefix, bit)
          /\ call' = [op |-> "with_flipped_bit", self |-> prefix, bit |-> bit]
    /\ UNCHANGED << network, params, pc, queue, events, section_events,
                    merges_to_finalise, ops, requests, in_transit, budget >>

prefix_is_sibling ==
    /\ pc = "prefix"
    /\ \E other \in Prefixes :
          call' = [op |-> "is_sibling", self |-> prefix, other |-> other,
                   result |-> is_sibling(prefix, other)]
    /\ UNCHANGED << network, params, pc, queue, prefix, events, section_events,
                    merges_to_finalise, ops, requests, in_transit, budget >>

prefix_is_neighbour ==
    /\ pc = "prefix"
    /\ \E other \in Prefixes :
          call' = [op |-> "is_neighbour", self |-> prefix, other |-> other,
                   result |-> is_neighbour(prefix, other)]
    /\ UNCHANGED << network, params, pc, queue, prefix, events, section_events,
                    merges_to_finalise, ops, requests, in_transit, budget >>

NextPrefix ==
    \/ prefix_extend
    \/ prefix_shorten
    \/ prefix_with_flipped_bit
    \/ prefix_is_sibling
    \/ prefix_is_neighbour

SpecPrefix == InitPrefix /\ [][NextPrefix]_vars

(***************************************************************************)
(* merged_section on its own: the tries the splits lead to and the calls   *)
(* of merged_section over the sections below a target.  The target stands  *)
(* for the prefix a merge is initiated or finalised into.                  *)
(***************************************************************************)
\* the tries below p: p itself, or a trie below each of its children
RECURSIVE Tries(_)
Tries(p) ==
    { { p } } \cup
    ( IF p.len < NameBits
      THEN { a \cup b : a \in Tries(extend(p, 0)), b \in Tries(extend(p, 1)) }
      ELSE {} )

\* a network between two calls whose sections cover the names
InitTrie ==
    /\ \E trie \in Tries(empty) : nodes = [p \in trie |-> Settled(p, 0)]
    /\ left_nodes = << >>
    /\ pending_merges = [k \in {} |-> [c \in {} |-> FALSE]]
    /\ params \in [init_age : {init_age}, drop_dist : DropDists]
    /\ event_queue = EmptyMap
    /\ output = NewOutput
    /\ pc = "merged_section"
    /\ queue = EmptyMap
    /\ prefix = empty
    /\ events = << >>
    /\ section_events = << >>
    /\ merges_to_finalise = << >>
    /\ ops = 0
    /\ requests = 0
    /\ in_transit = 0
    /\ budget = [ops |-> 0, requests |-> 0]
    /\ call = NoCall

\* Network::merged_section over the sections below a target, keeping them
\* (as merge calls it) or removing them (as process_events calls it); ok is
\* FALSE when Section::merge is handed two sections that are no siblings
call_merged_section ==
    /\ pc = "merged_section"
    /\ \E target \in Prefixes, destructive \in BOOLEAN :
          LET prefixes == { k \in DOMAIN nodes : is_ancestor(target, k) }
              merged == merged_section(nodes, SortedKeys(prefixes))
          IN  /\ prefixes # {}
              /\ call' = [op |-> "merged_section", target |-> target,
                          prefixes |-> prefixes, destructive |-> destructive,
                          ok |-> merged.ok, merged |-> merged.section.prefix]
              /\ pc' = IF ~ merged.ok THEN "aborted"
                       ELSE IF destructive THEN "merged" ELSE pc
              /\ IF destructive /\ merged.ok
                 THEN /\ nodes' = MapRemoveAll(nodes, prefixes)
                      /\ event_queue' = MapRemoveAll(event_queue, prefixes)
                 ELSE UNCHANGED << nodes, event_queue >>
    /\ UNCHANGED << left_nodes, pending_merges, output, params, queue, prefix, events,
                    section_events, merges_to_finalise, ops, requests, in_transit,
                    budget >>

NextMerged == call_merged_section

SpecMerged == InitTrie /\ [][NextMerged]_vars

(***************************************************************************)
(* The walk of relocate on its own: any set of live prefixes and the walk  *)
(* from each of them.                                                      *)
(***************************************************************************)
\* a network between two calls with any sections
InitWalk ==
    /\ \E live \in SUBSET Prefixes :
          /\ live # {}
          /\ nodes = [p \in live |-> Section(p)]
    /\ left_nodes = << >>
    /\ pending_merges = [k \in {} |-> [c \in {} |-> FALSE]]
    /\ params \in [init_age : {init_age}, drop_dist : DropDists]
    /\ event_queue = EmptyMap
    /\ output = NewOutput
    /\ pc = "walk"
    /\ queue = EmptyMap
    /\ prefix = empty
    /\ events = << >>
    /\ section_events = << >>
    /\ merges_to_finalise = << >>
    /\ ops = 0
    /\ requests = 0
    /\ in_transit = 0
    /\ budget = [ops |-> 0, requests |-> 0]
    /\ call = NoCall

\* the search for the neighbours in Network::relocate, from a live
\* src_section; asserted is FALSE when the assertion fails
relocate_walk ==
    /\ pc = "walk"
    /\ \E src_section \in DOMAIN nodes :
          LET found == Neighbours(nodes, src_section, 0)
              asserted == \A i \in DOMAIN found : is_neighbour(found[i], src_section)
          IN  /\ call' = [op |-> "walk", src_section |-> src_section,
                          neighbours |-> found \o << src_section >>,
                          asserted |-> asserted]
              /\ pc' = IF asserted THEN "walked" ELSE "aborted"
    /\ UNCHANGED << network, params, queue, prefix, events, section_events,
                    merges_to_finalise, ops, requests, in_transit, budget >>

NextWalk == relocate_walk

SpecWalk == InitWalk /\ [][NextWalk]_vars

(***************************************************************************)
(* Properties of the trie and of the queues.                               *)
(***************************************************************************)
\* the live prefixes that match a name
Owners(name) == { k \in DOMAIN nodes : matches(k, name) }

\* the driver is between two calls
BetweenCalls == pc = "idle"

\* process_events has just returned
Returned == call.op = "returned"

\* C1: between calls (after every operator and after every return of
\* process_events) every name matches exactly one key of the sections map
C1_TrieCover ==
    BetweenCalls => \A name \in Names : Cardinality(Owners(name)) = 1

\* C2: when process_events returns, every Live(_, true) event that was
\* enqueued has been delivered to a section: none was discarded
C2_Conservation == Returned => in_transit = 0

\* C3: when process_events returns, pending_merges is empty
C3_MergesResolved == Returned => DOMAIN pending_merges = {}

\* C4: between calls the constituents of every pending merge are exactly
\* the live prefixes that have the target as an ancestor
C4_PendingSubtree ==
    BetweenCalls =>
        \A target \in DOMAIN pending_merges :
            DOMAIN pending_merges[target] =
                { k \in DOMAIN nodes : is_ancestor(target, k) }

\* the constituents of all pending merges
Constituents == UNION { DOMAIN pending_merges[t] : t \in DOMAIN pending_merges }

\* C5: between calls and between two SectionEvents every key of event_queue
\* is a live prefix or a constituent of a pending merge
C5_NoOrphanQueues ==
    pc \in { "idle", "for_section_event" } =>
        DOMAIN event_queue \subseteq (DOMAIN nodes \cup Constituents)

\* a constituent of a pending merge has just split while queues are held
C5_Witness ==
    /\ pc = "for_section_event"
    /\ call.op = "split" /\ call.live
    /\ call.prefix \in Constituents
    /\ DOMAIN event_queue # {}

(***************************************************************************)
(* Properties of the operations.                                           *)
(***************************************************************************)
\* the next step handles a RequestMerge of the prefix being visited
MergeIsNext ==
    /\ pc = "for_section_event"
    /\ section_events # << >>
    /\ Head(section_events) = RequestMerge

\* C6: handling RequestMerge for a prefix whose target has a pending
\* ancestor (or is pending itself) changes no field of the network
C6_MergeIdempotent ==
    [][ (MergeIsNext /\ \E k \in DOMAIN pending_merges :
                            is_ancestor(k, shorten(prefix)))
        => UNCHANGED network ]_vars

\* such a RequestMerge has just been handled while a descendant of its
\* target was pending as well
C6_Witness ==
    /\ call.op = "merge"
    /\ \E k \in DOMAIN pending_merges : is_ancestor(k, shorten(call.prefix))
    /\ \E d \in DOMAIN pending_merges :
          d # shorten(call.prefix) /\ is_ancestor(shorten(call.prefix), d)

\* the keys are canonical and every name matches exactly one of them
CanonicalCover ==
    /\ \A k \in DOMAIN nodes : k.len <= NameBits /\ BitAnd(k.bits, len_mask(k)) = k.bits
    /\ \A name \in Names : Cardinality(Owners(name)) = 1

\* C7: over a trie cover of canonical keys prefix_for_node returns, for
\* every name, the one live prefix that matches it, and does not panic; so
\* does the call of it in add_random_node
C7_PrefixForNode ==
    CanonicalCover =>
        /\ \A name \in Names :
              /\ prefix_for_node(nodes, name).ok
              /\ Owners(name) = { prefix_for_node(nodes, name).pfx }
        /\ call.op = "add_random_node" => Owners(call.node.name) = { call.prefix }

\* with the live prefixes 00, 01 and 1 a name that starts 10 was added to 1
C7_Witness ==
    /\ DOMAIN nodes = { Path(<<0, 0>>), Path(<<0, 1>>), Path(<<1>>) }
    /\ call.op = "add_random_node"
    /\ BitAt(call.node.name, 0) = 1 /\ BitAt(call.node.name, 1) = 0
    /\ call.prefix = Path(<<1>>)

\* C8: the target of a relocation is one of the candidates, none of which
\* has a shorter prefix and none of which of the same length has fewer members
C8_RelocationTarget ==
    call.op = "relocate" =>
        /\ call.neighbour \in Range(call.neighbours)
        /\ \A c \in Range(call.neighbours) :
              \/ call.neighbour.len < c.len
              \/ /\ call.neighbour.len = c.len
                 /\ section_len(nodes[call.neighbour]) <= section_len(nodes[c])

Max(a, b) == IF a >= b THEN a ELSE b

\* C9: a rejoin that pops a node n enqueues one Live(n', true) on the queue
\* of the live prefix that matches the name, n' having the name of n and
\* the age max(n.age - 1, init_age), and takes n out of left_nodes
C9_RejoinAge ==
    [][ (call'.op = "rejoin_random_node" /\ call'.popped) =>
            \E i \in DOMAIN left_nodes :
                LET n == left_nodes[i]
                    rejoining == Node(n.name, Max(n.age - 1, params.init_age))
                IN  /\ Len(left_nodes') = Len(left_nodes) - 1
                    /\ \A m \in Range(left_nodes) :
                          Cardinality({ j \in DOMAIN left_nodes' : left_nodes'[j] = m })
                          = Cardinality({ j \in DOMAIN left_nodes : left_nodes[j] = m })
                            - (IF m = n THEN 1 ELSE 0)
                    /\ \E k \in Owners(n.name) :
                          event_queue' = Extended(event_queue, k,
                                                  << Live(rejoining, TRUE) >>) ]_vars

\* the number of events in the queues
RECURSIVE QueuedIn(_, _)
QueuedIn(eq, keys) ==
    IF keys = {} THEN 0
    ELSE LET k == CHOOSE x \in keys : TRUE
         IN  Len(eq[k]) + QueuedIn(eq, keys \ {k})

Queued(eq) == QueuedIn(eq, DOMAIN eq)

\* C10: a drop adds 1 to drops and to churn and enqueues at most one
\* event; when a section with members reports a positive weight it enqueues
\* one Lost(name) on the queue of a live section that has a node of that
\* name, and counts the node's age in drops_dist
C10_DropRandomNode ==
    [][ call'.op = "drop_random_node" =>
            /\ output'.drops = output.drops + 1
            /\ output'.churn = output.churn + 1
            /\ Queued(event_queue') <= Queued(event_queue) + 1
            /\ (\E k \in DOMAIN nodes :
                    section_len(nodes[k]) > 0 /\ call'.weights[k] > 0)
               => \E k \in DOMAIN nodes : \E n \in nodes[k].nodes :
                     /\ event_queue' = Extended(event_queue, k, << Lost(n.name) >>)
                     /\ output'.drops_dist = Counted(output.drops_dist, n.age) ]_vars

Canonical(p) == p.len <= NameBits /\ BitAnd(p.bits, len_mask(p)) = p.bits

\* the prefixes the walk of Network::relocate visits from src_section: a
\* flipped bit, then shortened up to the position of that bit
RECURSIVE Shortened(_, _)
Shortened(p, steps) ==
    IF steps = 0 THEN { p } ELSE { p } \cup Shortened(shorten(p), steps - 1)

Walked(src_section) ==
    UNION { Shortened(with_flipped_bit(src_section, pos), src_section.len - pos)
            : pos \in 0 .. (src_section.len - 1) }

\* C12: every key of the sections, of event_queue and of pending_merges and
\* every constituent is canonical, and so are the candidates of the last
\* relocation; extend, shorten and the walk of the relocation lead from a
\* canonical prefix to canonical ones only
C12_Canonicity ==
    /\ \A k \in DOMAIN nodes \cup DOMAIN event_queue \cup DOMAIN pending_merges
                \cup Constituents : Canonical(k)
    /\ call.op = "relocate" => \A k \in Range(call.neighbours) : Canonical(k)
    /\ \A p \in Prefixes :
          /\ Canonical(extend(p, 0)) /\ Canonical(extend(p, 1))
          /\ Canonical(shorten(p))
          /\ \A q \in Walked(p) : Canonical(q)

\* a relocation has walked, by a flipped bit and a shorten, from the section
\* of the node to a neighbour with a shorter prefix
C12_Witness ==
    /\ call.op = "relocate"
    /\ pc # "aborted"
    /\ \E i \in DOMAIN call.neighbours :
          /\ call.neighbours[i].len < call.src_section.len
          /\ call.neighbours[i] \in Walked(call.src_section)
    /\ call.neighbour \in DOMAIN event_queue

(***************************************************************************)
(* Properties of the counters.                                             *)
(***************************************************************************)
\* what one step adds to the counters that churn sums up
Delta(field) == output'[field] - output[field]

\* C13: churn starts at 0 and every step adds to it what the step adds to
\* adds, drops and rejoins, twice what it adds to relocations, 1 for a split
\* performed and 1 for a merge finalised, so that churn is that sum in every
\* state; a drop or a rejoin counts 1 even when it enqueues nothing and a
\* RequestSplit for a prefix that is not live counts nothing
C13_ChurnAccounting ==
    /\ output.churn = 0 /\ output.adds = 0 /\ output.drops = 0
    /\ output.rejoins = 0 /\ output.relocations = 0
    /\ [][ /\ Delta("churn") =
                Delta("adds") + Delta("drops") + Delta("rejoins")
                + 2 * Delta("relocations")
                + (IF call'.op = "split" /\ call'.live THEN 1 ELSE 0)
                + (IF call'.op = "finalise" /\ pc' # "aborted" THEN 1 ELSE 0)
           /\ call'.op \in { "drop_random_node", "rejoin_random_node" }
                  /\ pc' # "aborted"
              => Delta("churn") = 1
           /\ call'.op = "split" /\ ~ call'.live => Delta("churn") = 0 ]_vars

\* a merge has been finalised after an addition, a relocation and a split
C13_Witness ==
    /\ call.op = "finalise"
    /\ pc # "aborted"
    /\ output.adds = 1
    /\ output.relocations >= 1
    /\ output.churn >= 5

\* C14: for canonical prefixes p and q, p.is_sibling(q) holds exactly when
\* q.is_sibling(p) holds, both shorten to the same prefix, both have the
\* same length above 0 and p differs from q; the empty prefix is a sibling
\* of nothing and nothing is a sibling of it
C14_SiblingLaw ==
    call.op = "is_sibling" =>
        LET p == call.self
            q == call.other
        IN  /\ call.result <=> ( /\ is_sibling(q, p)
                                 /\ shorten(p) = shorten(q)
                                 /\ p.len = q.len
                                 /\ p.len > 0
                                 /\ p # q )
            /\ call.result = is_sibling(p, q)
            /\ (p = empty \/ q = empty) => ~ call.result

\* is_sibling has found two siblings of the longest prefixes
C14_Witness ==
    /\ call.op = "is_sibling"
    /\ call.result
    /\ call.self.len = NameBits
    /\ call.self.bits # 0

\* C15: extend followed by shorten gives the prefix back, for every
\* canonical prefix shorter than the names and both bits; extend of a prefix
\* as long as the names and shorten of the empty prefix change nothing
C15_ExtendShorten ==
    /\ call.op = "extend" =>
          IF call.self.len < NameBits
          THEN /\ shorten(prefix) = call.self
               /\ prefix.len = call.self.len + 1
          ELSE prefix = call.self
    /\ call.op = "shorten" /\ call.self.len = 0 => prefix = call.self
    /\ \A p \in Prefixes : \A b \in {0, 1} :
          p.len < NameBits => shorten(extend(p, b)) = p

\* a prefix one bit shorter than the names has been extended by a 1
C15_Witness ==
    /\ call.op = "extend"
    /\ call.self.len = NameBits - 1
    /\ call.self.bits # 0
    /\ call.bit % 2 = 1
    /\ prefix.len = NameBits

(***************************************************************************)
(* Properties of merged_section.                                           *)
(***************************************************************************)
\* C16: merged_section, called with the sections of a complete subtree
\* below a target, hands Section::merge two siblings in every call and
\* returns a section whose prefix is the target, whatever the shape of the
\* subtree
C16_MergedPairing ==
    call.op = "merged_section" => call.ok /\ call.merged = call.target

\* merged_section has merged a subtree of five sections into its target
C16_Paired ==
    /\ call.op = "merged_section"
    /\ call.ok
    /\ call.merged = call.target
    /\ Cardinality(call.prefixes) = 5

(***************************************************************************)
(* Properties of process_events.                                           *)
(***************************************************************************)
\* a is the beginning of b
StartsWith(b, a) == Len(a) <= Len(b) /\ SubSeq(b, 1, Len(a)) = a

\* C17: the events of a prefix are delivered in the order they were
\* enqueued in: a queue grows at its end only (a merge replaces it, a split
\* discards the one of its prefix), an iteration takes all queues at once,
\* visits the prefixes in ascending order of (bits, len) and delivers the
\* events of each from the first on; what is enqueued during an iteration
\* stays out of what the iteration delivers
C17_DeliveryOrder ==
    [][ /\ \A k \in DOMAIN event_queue \cap DOMAIN event_queue' :
              \/ StartsWith(event_queue'[k], event_queue[k])
              \/ call'.op = "merge"
              \/ call'.op = "split" /\ k = call'.prefix
        /\ pc = "while" /\ pc' = "for_prefix"
              => queue' = event_queue /\ event_queue' = EmptyMap
        /\ pc = "for_prefix" /\ pc' = "for_event"
              => /\ prefix' \in DOMAIN queue
                 /\ events' = queue[prefix']
                 /\ queue' = [k \in DOMAIN queue \ { prefix' } |-> queue[k]]
                 /\ \A k \in DOMAIN queue' :
                       \/ prefix'.bits < k.bits
                       \/ prefix'.bits = k.bits /\ prefix'.len < k.len
        /\ call'.op = "handle_event"
              => /\ events = << call'.event >> \o events'
                 /\ call'.prefix = prefix
        /\ pc = "for_event"
              => /\ queue' = queue
                 /\ events' = events \/ call'.op = "handle_event"
        /\ pc = "for_section_event" => queue' = queue /\ events' = events
        /\ pc = "for_prefix" /\ pc' = "while" => queue = EmptyMap
      ]_vars

\* an event of the snapshot is delivered while other prefixes of the
\* snapshot wait and events enqueued during this iteration are queued
C17_Witness ==
    /\ call.op = "handle_event"
    /\ call.delivered
    /\ Cardinality(DOMAIN queue) >= 2
    /\ events # << >>
    /\ DOMAIN event_queue # {}

\* the step finalises a pending merge
Finalised == call'.op = "finalise" /\ pc' # "aborted"

C19_SplitEffect ==
    [][ call'.op = "split" =>
           IF call'.live
           THEN LET P == call'.prefix
                    children == { extend(P, 0), extend(P, 1) }
                IN  /\ DOMAIN nodes' = (DOMAIN nodes \ { P }) \cup children
                    /\ \A k \in DOMAIN nodes \ ({ P } \cup children) :
                          nodes'[k] = nodes[k]
                    /\ event_queue' =
                          Extended(Extended(MapRemove(event_queue, P),
                                            extend(P, 0), call'.ev0),
                                   extend(P, 1), call'.ev1)
                    /\ output' = [output EXCEPT !.churn = @ + 1]
                    /\ UNCHANGED << left_nodes, pending_merges >>
           ELSE UNCHANGED network ]_vars

\* the elders of the section the given sections merge into
MergedElders(constituents) ==
    elders([prefix |-> empty,
            nodes |-> UNION { nodes[q].nodes : q \in constituents },
            crowd |-> 0])

\* C20: right after a merge into T is initiated the queue of every
\* constituent q is StartMerge(T), then Gone(e) for every elder e of q that
\* is no elder of the merged section, then Live(e, false) for every elder of
\* the merged section that is none of q, then PrefixChange(T), and nothing
\* that was queued for q before; the sections, left_nodes, the counters and
\* the other queues are unchanged
C20_MergePreamble ==
    [][ call'.op = "merge" /\ call'.initiated =>
           LET T == shorten(call'.prefix)
               constituents == { k \in DOMAIN nodes : is_ancestor(T, k) }
           IN  /\ T \in DOMAIN pending_merges'
               /\ DOMAIN pending_merges'[T] = constituents
               /\ \A q \in constituents :
                     LET evs == event_queue'[q]
                         lost == elders(nodes[q]) \ MergedElders(constituents)
                         gained == MergedElders(constituents) \ elders(nodes[q])
                         first == 1 + Cardinality(lost)
                     IN  /\ Len(evs) = 2 + Cardinality(lost) + Cardinality(gained)
                         /\ evs[1] = StartMerge(T)
                         /\ { evs[i] : i \in 2 .. first } = { Gone(e) : e \in lost }
                         /\ { evs[i] : i \in (first + 1) .. (Len(evs) - 1) }
                               = { Live(e, FALSE) : e \in gained }
                         /\ evs[Len(evs)] = PrefixChange(T)
               /\ DOMAIN event_queue' = DOMAIN event_queue \cup constituents
               /\ \A k \in DOMAIN event_queue \ constituents :
                     event_queue'[k] = event_queue[k]
               /\ UNCHANGED << nodes, left_nodes, output >> ]_vars

\* a merge has been initiated that costs one constituent its elder, gives
\* it the elder of the other and replaces what was queued for it
C20_Witness ==
    /\ call.op = "merge"
    /\ call.initiated
    /\ \E q \in DOMAIN event_queue :
          /\ Len(event_queue[q]) = 4
          /\ event_queue[q][2].type = "Gone"
          /\ event_queue[q][3].type = "Live"
    /\ \E q \in DOMAIN event_queue : Len(event_queue[q]) = 2
    /\ in_transit = 1

(***************************************************************************)
(* Properties of the relocation.                                           *)
(***************************************************************************)
\* C21: whatever the live prefixes and the source prefix, every prefix the
\* walk of relocate finds is a neighbour of the source, so that the
\* assertion holds, is live, and is found once only
C21_NeighbourSearch ==
    call.op = "walk" =>
        /\ call.asserted
        /\ pc # "aborted"
        /\ \A i \in DOMAIN call.neighbours :
              /\ call.neighbours[i] \in DOMAIN nodes
              /\ i < Len(call.neighbours)
                    => is_neighbour(call.neighbours[i], call.src_section)
        /\ \A i, j \in DOMAIN call.neighbours :
              i # j => call.neighbours[i] # call.neighbours[j]

\* the walk from a longest prefix has found a neighbour for every bit, one
\* of them by shortening
C21_Witness ==
    /\ call.op = "walk"
    /\ call.src_section.len = NameBits
    /\ Len(call.neighbours) = NameBits + 1
    /\ \E i \in DOMAIN call.neighbours : call.neighbours[i].len < NameBits
    /\ \E k \in DOMAIN nodes : is_ancestor(k, call.src_section) /\ k # call.src_section

\* the step handles a NeedRelocate of the prefix
Relocating ==
    /\ pc = "for_section_event"
    /\ section_events # << >>
    /\ Head(section_events).type = "NeedRelocate"

\* C22: handling NeedRelocate(n) adds 1 to relocations and 2 to churn and
\* appends one event, Live(n', true), to the queue of the chosen live
\* section T; n' is one older than n, its name matches T and, when the
\* halves of T differ, T extended by the bit of the smaller half; the
\* sections, left_nodes and pending_merges stay
C22_RelocationEffect ==
    [][ Relocating =>
           LET n == Head(section_events).node
               T == call'.neighbour
               halves == count_halves(nodes[T])
           IN  /\ call'.op = "relocate"
               /\ pc' # "aborted"
               /\ T \in DOMAIN nodes
               /\ output' = [output EXCEPT !.relocations = @ + 1, !.churn = @ + 2]
               /\ event_queue' = Extended(event_queue, T, << Live(call'.node, TRUE) >>)
               /\ call'.node.age = n.age + 1
               /\ matches(T, call'.node.name)
               /\ halves[1] < halves[2] => matches(extend(T, 0), call'.node.name)
               /\ halves[1] > halves[2] => matches(extend(T, 1), call'.node.name)
               /\ UNCHANGED << nodes, left_nodes, pending_merges >> ]_vars

\* the positions within the first m bits at which two words differ
Differences(a, b, m) == { i \in 0 .. (m - 1) : BitAt(a, i) # BitAt(b, i) }

\* C23: for canonical prefixes p and q, p.is_neighbour(q) holds exactly when
\* the two, cut to the length of the shorter, differ in one bit position;
\* so it is symmetric, false for compatible prefixes and false when either
\* is the empty prefix
C23_NeighbourRelation ==
    call.op = "is_neighbour" =>
        LET p == call.self
            q == call.other
            m == IF p.len < q.len THEN p.len ELSE q.len
        IN  /\ call.result <=> Cardinality(Differences(p.bits, q.bits, m)) = 1
            /\ call.result = is_neighbour(q, p)
            /\ is_compatible_with(p, q) => ~ call.result
            /\ (p = empty \/ q = empty) => ~ call.result

\* is_neighbour has found a longest prefix and a shorter one to be
\* neighbours although they differ beyond the shorter length as well
C23_Witness ==
    /\ call.op = "is_neighbour"
    /\ call.result
    /\ call.self.len = NameBits
    /\ call.other.len < NameBits
    /\ Cardinality(Differences(call.self.bits, call.other.bits, NameBits)) > 1

(***************************************************************************)
(* Properties of the pending merges.                                       *)
(***************************************************************************)
\* C24: no two pending merges have compatible targets: a merge that is
\* registered takes the place of every pending merge under its target
C24_NoOverlap ==
    \A a, b \in DOMAIN pending_merges : a # b => ~ is_compatible_with(a, b)

(***************************************************************************)
(* Properties of the sections map.                                         *)
(***************************************************************************)
\* C25: when process_events has returned, every section is stored under
\* its own prefix
C25_OwnPrefix ==
    Returned => \A k \in DOMAIN nodes : nodes[k].prefix = k

\* C26: every pending merge that is registered has two constituents or
\* more and a target shorter than each of them, and every merge that is
\* finalised leaves fewer sections than there were, also when the section at
\* the empty prefix asks for the merge
C26_MergeShrinks ==
    [][ /\ call'.op = "merge" /\ call'.initiated =>
              LET T == shorten(call'.prefix)
              IN  /\ T \in DOMAIN pending_merges'
                  /\ Cardinality(DOMAIN pending_merges'[T]) >= 2
                  /\ \A q \in DOMAIN pending_merges'[T] : T.len < q.len
        /\ call'.op = "finalise" /\ pc' # "aborted" =>
              Cardinality(DOMAIN nodes') < Cardinality(DOMAIN nodes) ]_vars

====
